---------------------------- MODULE Spec2Model ----------------------------
(***************************************************************************)
(* State-machine model of the LiveConnect tracking module                  *)
(* (modules/liveConnect.js) and of the LiveIntent identifier resolver      *)
(* (modules/userId/liveIntentIdSystem.js).                                 *)
(*                                                                         *)
(* Time is counted in whole days and a page lifetime lies within one day:  *)
(* the page loads on day 1, and every date of the model is relative to it. *)
(* Storage values are strings; the JavaScript values null and undefined    *)
(* are the sentinels Null and Undefined, which no stored string equals.    *)
(* Configuration values, whose JavaScript type matters to validateConfig,  *)
(* are tagged records.                                                     *)
(***************************************************************************)
EXTENDS Integers, Sequences, FiniteSets, TLC

VARIABLES
    isPixelFired,     \* liveConnect.js:96   the module-scoped flag
    liveConnectCfg,   \* config.getConfig('liveConnect'): the raw configuration
    consentData,      \* gdprDataHandler.getConsentData(): the consent snapshot
    now,              \* Date.now(), in days: the day of the page load
    cookies,          \* the browser's cookie jar (document.cookie)
    ls,               \* window.localStorage
    env,              \* the page: hostname labels, public suffix, cookiesEnabled, inIframe
    pipeline,         \* the requestBids run in progress: its position in the hook chain
    pixelCalls,       \* utils.triggerPixel calls of the latest trigger invocation
    setCookieCalls,   \* utils.setCookie calls of the latest trigger invocation
    setItemCalls,     \* localStorage.setItem calls of the latest trigger invocation
    last,             \* what the latest trigger invocation did
    epoch,            \* counts of the current page lifetime (since resetPixel)
    resolver,         \* state of the identifier resolver (liveIntentIdSystem.js)
    returned          \* the latest call of one function of the modules on its own:
                      \* the function, its argument and what it returned

vars == <<isPixelFired, liveConnectCfg, consentData, now, cookies, ls, env,
          pipeline, pixelCalls, setCookieCalls, setItemCalls, last, epoch,
          resolver, returned>>

-----------------------------------------------------------------------------
(* Bounds of the model *)

MaxCalls == 2         \* trigger invocations per page lifetime
MaxLabels == 2        \* DNS labels of window.location.hostname

-----------------------------------------------------------------------------
(* JavaScript values *)

Null == "#null"
Undefined == "#undefined"
NaN == 0 - 1000000

\* !v for a storage value
Falsy(v) == v \in {Null, Undefined, ""}

JsUndefined == [t |-> "undefined"]
JsNull == [t |-> "null"]
Str(s) == [t |-> "string", s |-> s]
Num(n) == [t |-> "number", n |-> n]
Arr(a) == [t |-> "array", a |-> a]
Obj(f) == [t |-> "object", o |-> f]
EmptyObj == Obj(<<>>)

\* a test for null and undefined only (x == null) in place of !x
JsNullish(x) == x.t \in {"undefined", "null"}

\* !x for a tagged value
JsFalsy(x) ==
    \/ x.t \in {"undefined", "null"}
    \/ x.t = "string" /\ x.s = ""
    \/ x.t = "number" /\ x.n = 0

\* x[k]: property access on a value that is not null/undefined
Prop(x, k) == IF x.t = "object" /\ k \in DOMAIN x.o THEN x.o[k] ELSE JsUndefined

\* results of operations that may throw
Ret(v) == [threw |-> FALSE, v |-> v]
Throw == [threw |-> TRUE, v |-> Undefined]


-----------------------------------------------------------------------------
(* Constants of modules/liveConnect.js *)

COOKIE == "cookie"
LOCAL_STORAGE == "html5"
LIVE_PIXEL_URL == "//rp.liadm.com/p"
DUID_NAME == "_lc2_duid"
STORAGE_TYPE_ALLOWED == {COOKIE, LOCAL_STORAGE}
STORAGE_TYPE_DEFAULT == COOKIE
STORAGE_EXPIRES_DEFAULT == 730
PrebidVersion == "$prebid.version$"
ConsentManagementPriority == 50
\* the hook registered above consentManagement instead of below it
LiveConnectPriorityAboveConsent == ConsentManagementPriority + 10
LiveConnectPriority == 40

-----------------------------------------------------------------------------
(* Dates: Date.prototype.toUTCString and the Date constructor's parsing *)

ExpiresValues == {STORAGE_EXPIRES_DEFAULT, 60, 23}
Dates == {t + e : t \in 0..3, e \in ExpiresValues \cup {0}}

UTCString(t) == "D" \o ToString(t)

DateTable == [s \in {UTCString(t) : t \in Dates} |->
                 CHOOSE t \in Dates : UTCString(t) = s]

\* (new Date(s)).getTime(): NaN for a string that is no date
DateGetTime(s) == IF s \in DOMAIN DateTable THEN DateTable[s] ELSE NaN

-----------------------------------------------------------------------------
(* encodeURIComponent / decodeURIComponent on the strings of the model *)

PageHref == "http://localhost:9876/?id=1"
Referrer == "http://publisher.example/page"

EncodeTable == [s \in {"A B", PageHref, Referrer} |->
    CASE s = "A B" -> "A%20B"
      [] s = PageHref -> "http%3A%2F%2Flocalhost%3A9876%2F%3Fid%3D1"
      [] s = Referrer -> "http%3A%2F%2Fpublisher.example%2Fpage"]

Malformed == {"%"}

encodeURIComponent(s) ==
    IF s \in DOMAIN EncodeTable THEN EncodeTable[s]
    ELSE IF s = Null THEN "null"
    ELSE IF s = Undefined THEN "undefined"
    ELSE s

\* throws URIError on a malformed escape; null decodes to the string "null"
decodeURIComponent(s) ==
    IF s \in Malformed THEN Throw
    ELSE IF s = Null THEN Ret("null")
    ELSE IF s = Undefined THEN Ret("undefined")
    ELSE IF \E d \in DOMAIN EncodeTable : EncodeTable[d] = s
         THEN Ret(CHOOSE d \in DOMAIN EncodeTable : EncodeTable[d] = s)
    ELSE Ret(s)

-----------------------------------------------------------------------------
(* ulid(): 10 characters of Crockford base32 time, 16 random characters *)

Base32 == <<"0","1","2","3","4","5","6","7","8","9","A","B","C","D","E","F",
            "G","H","J","K","M","N","P","Q","R","S","T","V","W","X","Y","Z">>
RandomParts == {"7ZZZZZZZZZZZZZZZ"}
UlidEncodeTime(t) == "000000000" \o Base32[(t % 32) + 1]
ulid(t, rnd) == UlidEncodeTime(t) \o rnd
Ulids == {ulid(t, r) : t \in 0..3, r \in RandomParts}
OldDuid == "0000000000OLDOLDOLDOLDOLDX"

-----------------------------------------------------------------------------
(* Storage accessor: utils.getCookie / utils.setCookie / utils.cookiesAreEnabled *)
(* and window.localStorage, as the browser implements them                       *)

Forever == 1000 * 1000
NoCookie == [value |-> Null, expires |-> 0]
IdNames == {"pfpi", "sid1", "sid2"}
ResolverNames == {"_li_duid", "my_li_duid"}
CookieNames == {DUID_NAME} \cup IdNames \cup ResolverNames
LsKeys == {DUID_NAME, DUID_NAME \o "_exp"} \cup IdNames \cup ResolverNames

\* utils.getCookie(name): null when there is no unexpired cookie of that name
getCookie(jar, name, t) ==
    IF name \notin DOMAIN jar THEN Null
    ELSE IF jar[name].value = Null \/ jar[name].expires <= t THEN Null
    ELSE decodeURIComponent(jar[name].value).v

\* the domain made of the last k labels of the hostname: hostParts.slice(n - k)
RECURSIVE JoinLabels(_)
JoinLabels(k) == IF k = 1 THEN "l1" ELSE ("l" \o ToString(k)) \o "." \o JoinLabels(k - 1)
DomainOf(k) == "." \o JoinLabels(k)

\* utils.setCookie(name, value, expires, 'Lax', domain) on a domain of k labels:
\* the browser silently rejects a cookie set on a public suffix, and a cookie
\* whose expiry is not in the future deletes the cookie of that name
setCookie(jar, name, value, expiresStr, k, psl, t) ==
    LET exp == DateGetTime(expiresStr) IN
    IF k <= psl \/ name \notin DOMAIN jar THEN jar
    ELSE IF exp # NaN /\ exp <= t THEN [jar EXCEPT ![name] = NoCookie]
    ELSE [jar EXCEPT ![name] =
              [value |-> encodeURIComponent(value),
               expires |-> IF exp = NaN THEN Forever ELSE exp]]

\* localStorage.getItem(key)
getItem(store, key) == IF key \in DOMAIN store THEN store[key] ELSE Null

\* localStorage.setItem(key, value)
setItem(store, key, value) ==
    IF key \in DOMAIN store THEN [store EXCEPT ![key] = value] ELSE store

\* A storage fault of one trigger invocation: document.cookie throws
\* (cookie), window.localStorage throws on access (ls = "denied"), or
\* setItem throws on the value key, the quota being reached ("quotaVal")
Faults == [cookie : {FALSE}, ls : {"ok", "denied", "quotaVal"}]
              \cup {[cookie |-> TRUE, ls |-> "denied"]}
NoFault == [cookie |-> FALSE, ls |-> "ok"]

-----------------------------------------------------------------------------
(* validateConfig and its helpers *)

isStr(x) == x.t = "string"
isNumber(x) == x.t = "number"
isArray(x) == x.t = "array"
isPlainObject(x) == x.t = "object"

\* checked is check(val), which the caller evaluates on the value it passes
validOrDefault(val, checked, defaultVal) == IF checked THEN val ELSE defaultVal

isArrayOfStrings(val) == isArray(val) /\ \A i \in DOMAIN val.a : isStr(val.a[i])

\* the storage type check without the list of allowed values
isAnyString(v) == isStr(v)

isAllowedStorageType(v) == isStr(v) /\ v.s \in STORAGE_TYPE_ALLOWED

validateConfig(config) ==
    LET defaults == [scrapedIdentifiers |-> JsUndefined,
                     providedFirstPartyIdentifier |-> JsUndefined,
                     storage |-> [type |-> Str(STORAGE_TYPE_DEFAULT),
                                  expires |-> Num(STORAGE_EXPIRES_DEFAULT)]]
    IN  IF JsFalsy(config) THEN defaults
        ELSE LET scraped == Prop(config, "scrapedIdentifiers")
                 pfpi == Prop(config, "providedFirstPartyIdentifier")
                 type == Prop(Prop(config, "storage"), "type")
                 expires == Prop(Prop(config, "storage"), "expires")
             IN  [scrapedIdentifiers |->
                      validOrDefault(scraped, isArrayOfStrings(scraped), Arr(<<>>)),
                  providedFirstPartyIdentifier |->
                      validOrDefault(pfpi, isStr(pfpi), JsNull),
                  storage |->
                      IF isPlainObject(Prop(config, "storage"))
                      THEN [type |-> validOrDefault(type, isAllowedStorageType(type),
                                                    Str(STORAGE_TYPE_DEFAULT)),
                            expires |-> validOrDefault(expires, isNumber(expires),
                                                       Num(STORAGE_EXPIRES_DEFAULT))]
                      ELSE defaults.storage]

\* getPageUrl()
getPageUrl(inIframe) == IF inIframe THEN Referrer ELSE PageHref

-----------------------------------------------------------------------------
(* The durable identifier: getDuid, getStoredDuid, getFromLocalStorage,    *)
(* storeDuid, expiresString, storeCookieOnEtldPlus1                        *)

getFromLocalStorage(name, store, t, fault) ==
    IF fault.ls = "denied" THEN Throw
    ELSE LET storedValueExp == getItem(store, name \o "_exp") IN
         IF storedValueExp = "" THEN Ret(getItem(store, name))
         ELSE IF ~Falsy(storedValueExp)
              THEN IF DateGetTime(storedValueExp) # NaN /\ DateGetTime(storedValueExp) - t > 0
                   THEN decodeURIComponent(getItem(store, name))
                   ELSE Ret(Undefined)
              ELSE Ret(Undefined)

\* getStoredDuid reading the cookie first and local storage when there is
\* none, as the identifier lookups do
getStoredDuidEitherStorage(storage, jar, store, t, fault) ==
    LET r == getFromLocalStorage(DUID_NAME, store, t, fault)
        cookie == IF fault.cookie THEN Undefined ELSE getCookie(jar, DUID_NAME, t)
    IN  IF ~Falsy(cookie) THEN cookie
        ELSE IF r.threw THEN Undefined ELSE r.v

\* an exception of the read is caught and logged: storedValue stays undefined
getStoredDuid(storage, jar, store, t, fault) ==
    IF storage.type = Str(COOKIE)
    THEN IF fault.cookie THEN Undefined ELSE getCookie(jar, DUID_NAME, t)
    ELSE IF storage.type = Str(LOCAL_STORAGE)
         THEN LET r == getFromLocalStorage(DUID_NAME, store, t, fault)
              IN  IF r.threw THEN Undefined ELSE r.v
         ELSE Undefined

expiresString(expirationDays, t) == UTCString(t + expirationDays)

SetCookieCall(name, value, expiresStr, k) ==
    [name |-> name, value |-> value, expires |-> expiresStr, domain |-> DomainOf(k)]

\* the loop of storeCookieOnEtldPlus1 from the candidate of k labels on
\* (i = hostParts.length - k): <<jar, calls>> when it returns
RECURSIVE CookieWalk(_, _, _, _, _, _, _)
\* the loop without the read-back: every candidate up to the hostname is written
CookieWalkToHostname(name, value, expiresStr, jar, calls, k, e) ==
    LET jar2 == setCookie(jar, name, value, expiresStr, k, e.psl, e.now)
        calls2 == Append(calls, SetCookieCall(name, value, expiresStr, k))
    IN  IF k >= e.labels THEN <<jar2, calls2>>
        ELSE CookieWalk(name, value, expiresStr, jar2, calls2, k + 1, e)

CookieWalk(name, value, expiresStr, jar, calls, k, e) ==
    LET jar2 == setCookie(jar, name, value, expiresStr, k, e.psl, e.now)
        calls2 == Append(calls, SetCookieCall(name, value, expiresStr, k))
    IN  IF getCookie(jar2, name, e.now) = value THEN <<jar2, calls2>>
        ELSE IF k >= e.labels THEN <<jar2, calls2>>
        ELSE CookieWalk(name, value, expiresStr, jar2, calls2, k + 1, e)

\* e: the page environment with the current time; <<jar, calls>> on return
\* or at the point where document.cookie throws
storeCookieOnEtldPlus1(name, value, expiresStr, jar, e, fault) ==
    IF fault.cookie
    THEN IF e.cookiesEnabled
         THEN <<jar, <<SetCookieCall(name, value, expiresStr, 1)>> >>
         ELSE <<jar, <<>> >>
    ELSE IF ~e.cookiesEnabled THEN <<jar, <<>> >>
    ELSE CookieWalk(name, value, expiresStr, jar, <<>>, 1, e)

SetItemCall(key, value) == [key |-> key, value |-> value]

\* storeDuid writing the value key before the expiry key
storeDuidValueFirst(storage, value, jar, store, e, fault) ==
    LET expiresStr == expiresString(storage.expires.n, e.now)
        unchanged == [cookies |-> jar, ls |-> store,
                      setCookieCalls |-> <<>>, setItemCalls |-> <<>>]
    IN  IF storage.type = Str(COOKIE)
        THEN LET w == storeCookieOnEtldPlus1(DUID_NAME, value, expiresStr, jar, e, fault)
             IN  [unchanged EXCEPT !.cookies = w[1], !.setCookieCalls = w[2]]
        ELSE IF storage.type = Str(LOCAL_STORAGE)
        THEN LET expCall == SetItemCall(DUID_NAME \o "_exp", expiresStr)
                 valCall == SetItemCall(DUID_NAME, encodeURIComponent(value))
                 store1 == setItem(store, expCall.key, expCall.value)
                 store2 == setItem(store1, valCall.key, valCall.value)
             IN  CASE fault.ls = "denied" -> unchanged
                   [] fault.ls = "quotaVal" ->
                        [unchanged EXCEPT !.ls = store1, !.setItemCalls = <<valCall, expCall>>]
                   [] OTHER ->
                        [unchanged EXCEPT !.ls = store2, !.setItemCalls = <<valCall, expCall>>]
        ELSE unchanged

\* an exception of the write is caught and logged
storeDuid(storage, value, jar, store, e, fault) ==
    LET expiresStr == expiresString(storage.expires.n, e.now)
        unchanged == [cookies |-> jar, ls |-> store,
                      setCookieCalls |-> <<>>, setItemCalls |-> <<>>]
    IN  IF storage.type = Str(COOKIE)
        THEN LET w == storeCookieOnEtldPlus1(DUID_NAME, value, expiresStr, jar, e, fault)
             IN  [unchanged EXCEPT !.cookies = w[1], !.setCookieCalls = w[2]]
        ELSE IF storage.type = Str(LOCAL_STORAGE)
        THEN LET expCall == SetItemCall(DUID_NAME \o "_exp", expiresStr)
                 valCall == SetItemCall(DUID_NAME, encodeURIComponent(value))
                 store1 == setItem(store, expCall.key, expCall.value)
                 store2 == setItem(store1, valCall.key, valCall.value)
             IN  CASE fault.ls = "denied" -> unchanged
                   [] fault.ls = "quotaVal" ->
                        [unchanged EXCEPT !.ls = store1, !.setItemCalls = <<expCall, valCall>>]
                   [] OTHER ->
                        [unchanged EXCEPT !.ls = store2, !.setItemCalls = <<expCall, valCall>>]
        ELSE unchanged

\* getDuid storing what it read instead of what it returns
getDuidStoresStored(validConfig, jar, store, e, fault, rnd) ==
    LET Store(stored, duid) ==
            [duid |-> duid, stored |-> stored, generated |-> Falsy(stored),
             after |-> storeDuid(validConfig.storage, stored, jar, store, e, fault)]
        WithStored(stored) == Store(stored, IF Falsy(stored) THEN ulid(e.now, rnd) ELSE stored)
    IN  WithStored(getStoredDuid(validConfig.storage, jar, store, e.now, fault))

\* getDuid: the duid it returns, whether it was generated, and the storage after storeDuid
getDuid(validConfig, jar, store, e, fault, rnd) ==
    LET Store(stored, duid) ==
            [duid |-> duid, stored |-> stored, generated |-> Falsy(stored),
             after |-> storeDuid(validConfig.storage, duid, jar, store, e, fault)]
        WithStored(stored) == Store(stored, IF Falsy(stored) THEN ulid(e.now, rnd) ELSE stored)
    IN  WithStored(getStoredDuid(validConfig.storage, jar, store, e.now, fault))

-----------------------------------------------------------------------------
(* Query parameters of the pixel call *)

\* no try/catch here: an exception of document.cookie or of localStorage propagates
getFromCookieOrLocalStorage(identifierName, jar, store, t, fault) ==
    IF fault.cookie THEN Throw
    ELSE LET identifierValue == getCookie(jar, identifierName, t) IN
         IF Falsy(identifierValue)
         THEN IF fault.ls = "denied" THEN Throw ELSE Ret(getItem(store, identifierName))
         ELSE Ret(identifierValue)

getProvidedFpiQueryParams(validConfig, jar, store, t, fault) ==
    LET name == validConfig.providedFirstPartyIdentifier IN
    IF JsFalsy(name) THEN Ret(Undefined)
    ELSE LET r == getFromCookieOrLocalStorage(name.s, jar, store, t, fault) IN
         IF r.threw THEN Throw
         ELSE IF Falsy(r.v) THEN Ret(Undefined)
         ELSE Ret("pfpi=" \o r.v \o "&fpn=" \o name.s)

RECURSIVE ScrapedParams(_, _, _, _, _, _)
\* the scraped parameters collected last name first
ScrapedParamsReversed(names, i, jar, store, t, fault) ==
    IF i > Len(names) THEN Ret(<<>>)
    ELSE LET r == getFromCookieOrLocalStorage(names[i].s, jar, store, t, fault)
             rest == ScrapedParams(names, i + 1, jar, store, t, fault)
         IN  IF r.threw \/ rest.threw THEN Throw
             ELSE IF Falsy(r.v) THEN rest
             ELSE Ret(rest.v \o <<"ext_" \o names[i].s \o "=" \o r.v>>)

\* .map(...).filter(param => param && param.length > 0) over the names from index i on
ScrapedParams(names, i, jar, store, t, fault) ==
    IF i > Len(names) THEN Ret(<<>>)
    ELSE LET r == getFromCookieOrLocalStorage(names[i].s, jar, store, t, fault)
             rest == ScrapedParams(names, i + 1, jar, store, t, fault)
         IN  IF r.threw \/ rest.threw THEN Throw
             ELSE IF Falsy(r.v) THEN rest
             ELSE Ret(<<"ext_" \o names[i].s \o "=" \o r.v>> \o rest.v)

\* Array.prototype.join('&')
RECURSIVE Join(_)
Join(params) ==
    IF Len(params) = 0 THEN ""
    ELSE IF Len(params) = 1 THEN params[1]
    ELSE params[1] \o "&" \o Join(Tail(params))

getScrapedIdentifiers(validConfig, jar, store, t, fault) ==
    IF JsFalsy(validConfig.scrapedIdentifiers) THEN Ret(Null)
    ELSE LET r == ScrapedParams(validConfig.scrapedIdentifiers.a, 1, jar, store, t, fault) IN
         IF r.threw THEN Throw
         ELSE IF Join(r.v) # "" THEN Ret(Join(r.v)) ELSE Ret(Null)

-----------------------------------------------------------------------------
(* sendLiveConnectPixel and liveConnectHook *)

\* The effects of sendLiveConnectPixel: the storage after getDuid, the calls
\* made, and either the pixel url handed to utils.triggerPixel or the
\* exception that left the function before it
sendLiveConnectPixel(rawConfig, jar, store, e, fault, rnd) ==
    LET Append2(uri, param) ==
            IF param.threw \/ Falsy(param.v) THEN uri ELSE uri \o "&" \o param.v
        Assemble(validConfig, d, pageUrl, fpi, scraped) ==
            [threw |-> fpi.threw \/ scraped.threw,
             pixel |-> IF fpi.threw \/ scraped.threw THEN Undefined
                       ELSE Append2(Append2(LIVE_PIXEL_URL \o "?duid=" \o d.duid
                                               \o "&tna=" \o PrebidVersion
                                               \o "&pu=" \o pageUrl, fpi), scraped),
             duid |-> d.duid, stored |-> d.stored, generated |-> d.generated,
             type |-> validConfig.storage.type.s,
             cookies |-> d.after.cookies, ls |-> d.after.ls,
             setCookieCalls |-> d.after.setCookieCalls,
             setItemCalls |-> d.after.setItemCalls]
        WithDuid(validConfig, d) ==
            Assemble(validConfig, d, encodeURIComponent(getPageUrl(e.inIframe)),
                     getProvidedFpiQueryParams(validConfig, d.after.cookies, d.after.ls,
                                               e.now, fault),
                     getScrapedIdentifiers(validConfig, d.after.cookies, d.after.ls,
                                           e.now, fault))
        WithConfig(validConfig) ==
            WithDuid(validConfig, getDuid(validConfig, jar, store, e, fault, rnd))
    IN  WithConfig(validateConfig(rawConfig))

\* hasGDPRConsent(gdprDataHandler.getConsentData()): the consent predicate
hasGDPRConsent(snapshot) == snapshot # "denied"

IdleEffects(jar, store) ==
    [threw |-> FALSE, pixel |-> Undefined, duid |-> Undefined,
     stored |-> Undefined, generated |-> FALSE, type |-> Undefined,
     cookies |-> jar, ls |-> store, setCookieCalls |-> <<>>, setItemCalls |-> <<>>]

\* liveConnectHook with `isPixelFired = true` moved into the consent branch
liveConnectHookFlagInsideIf(fired, snapshot, rawConfig, jar, store, e, fault, rnd) ==
    LET Hook(idle, sent) ==
            IF fired
            THEN [outcome |-> "noop", isPixelFired |-> TRUE, effects |-> idle]
            ELSE IF ~hasGDPRConsent(snapshot)
            THEN [outcome |-> "denied", isPixelFired |-> FALSE, effects |-> idle]
            ELSE IF sent.threw
            THEN [outcome |-> "threw", isPixelFired |-> FALSE, effects |-> sent]
            ELSE [outcome |-> "sent", isPixelFired |-> TRUE, effects |-> sent]
    IN  Hook(IdleEffects(jar, store),
             sendLiveConnectPixel(rawConfig, jar, store, e, fault, rnd))

\* liveConnectHook with the flag assigned the consent decision on every run
liveConnectHookFlagTracksConsent(fired, snapshot, rawConfig, jar, store, e, fault, rnd) ==
    LET Hook(idle, sent) ==
            IF fired
            THEN [outcome |-> "noop", isPixelFired |-> hasGDPRConsent(snapshot),
                  effects |-> idle]
            ELSE IF ~hasGDPRConsent(snapshot)
            THEN [outcome |-> "denied", isPixelFired |-> FALSE, effects |-> idle]
            ELSE IF sent.threw
            THEN [outcome |-> "threw", isPixelFired |-> FALSE, effects |-> sent]
            ELSE [outcome |-> "sent", isPixelFired |-> TRUE, effects |-> sent]
    IN  Hook(IdleEffects(jar, store),
             sendLiveConnectPixel(rawConfig, jar, store, e, fault, rnd))

\* liveConnectHook with `isPixelFired = true` in a finally block: the flag
\* is set also when sendLiveConnectPixel throws
liveConnectHookFlagOnThrow(fired, snapshot, rawConfig, jar, store, e, fault, rnd) ==
    LET Hook(idle, sent) ==
            IF fired
            THEN [outcome |-> "noop", isPixelFired |-> TRUE, effects |-> idle]
            ELSE IF ~hasGDPRConsent(snapshot)
            THEN [outcome |-> "denied", isPixelFired |-> TRUE, effects |-> idle]
            ELSE IF sent.threw
            THEN [outcome |-> "threw", isPixelFired |-> TRUE, effects |-> sent]
            ELSE [outcome |-> "sent", isPixelFired |-> TRUE, effects |-> sent]
    IN  Hook(IdleEffects(jar, store),
             sendLiveConnectPixel(rawConfig, jar, store, e, fault, rnd))

\* what one run of liveConnectHook does
liveConnectHook(fired, snapshot, rawConfig, jar, store, e, fault, rnd) ==
    LET Hook(idle, sent) ==
            IF fired
            THEN [outcome |-> "noop", isPixelFired |-> TRUE, effects |-> idle]
            ELSE IF ~hasGDPRConsent(snapshot)
            THEN [outcome |-> "denied", isPixelFired |-> TRUE, effects |-> idle]
            ELSE IF sent.threw
            THEN [outcome |-> "threw", isPixelFired |-> FALSE, effects |-> sent]
            ELSE [outcome |-> "sent", isPixelFired |-> TRUE, effects |-> sent]
    IN  Hook(IdleEffects(jar, store),
             sendLiveConnectPixel(rawConfig, jar, store, e, fault, rnd))

-----------------------------------------------------------------------------
(* The requestBids pipeline: the before-hooks run by descending priority,  *)
(* then the request dispatch.  The consentManagement hook asks the CMP and *)
(* calls the next step when the answer arrives; the steps after it run in  *)
(* that same callback.                                                     *)

HookChain ==
    IF ConsentManagementPriority > LiveConnectPriority
    THEN <<"consentManagement", "liveConnect">>
    ELSE <<"liveConnect", "consentManagement">>

PipelineSteps == HookChain \o <<"dispatch">>

\* done: the steps of the run in progress that have completed
PipelineIdle == [pc |-> "idle", done |-> <<>>]

-----------------------------------------------------------------------------
(* Initial states *)

\* configurations handed to pbjs.setConfig({liveConnect: ...})
RawConfigs ==
    { Obj([storage |-> Obj([type |-> Str("html5")])]),
      Obj([providedFirstPartyIdentifier |-> Str("pfpi"),
           scrapedIdentifiers |-> Arr(<<Str("sid1"), Str("sid2")>>),
           storage |-> Obj([type |-> Str("cookie"), name |-> Str("custom_name"),
                            expires |-> Num(60)])]),
      Obj([providedFirstPartyIdentifier |-> Num(7),
           scrapedIdentifiers |-> Arr(<<Str("sid1")>>),
           storage |-> Obj([type |-> Str("html5"), name |-> Str("custom_name"),
                            expires |-> Num(23)])]) }

\* the pages: a hostname of 1..MaxLabels labels that is a registrable domain
\* or a subdomain of one (its last psl labels are a public suffix), the
\* hostname that is itself a public suffix, a page with cookies disabled, a
\* framed page
Envs ==
    { e \in [labels : 1..MaxLabels, psl : 0..MaxLabels,
             cookiesEnabled : {TRUE}, inIframe : {FALSE}] :
          \/ e.psl = 0
          \/ e.psl = e.labels - 1
          \/ e.psl = 1 /\ e.labels > 1
          \/ e.psl = e.labels /\ e.labels = 1 }
    \cup { [labels |-> 1, psl |-> 0, cookiesEnabled |-> FALSE, inIframe |-> FALSE],
           [labels |-> 1, psl |-> 0, cookiesEnabled |-> TRUE, inIframe |-> TRUE] }

PlainEnv == [labels |-> 1, psl |-> 0, cookiesEnabled |-> TRUE, inIframe |-> FALSE]

EmptyJar == [n \in CookieNames |-> NoCookie]
EmptyStore == [k \in LsKeys |-> Null]
Cookie(v, exp) == [value |-> v, expires |-> exp]

\* the durable identifier a previous page load left as a cookie, on day t
DuidCookies(t) == {NoCookie, Cookie(OldDuid, t + 1)}

\* <<value key, _exp key>> a previous page load left in local storage, on day t
DuidItems(t) ==
    { <<Null, Null>>, <<OldDuid, UTCString(t + 1)>>, <<OldDuid, UTCString(t)>>,
      <<OldDuid, UTCString(t - 1)>>, <<OldDuid, "">>, <<Null, UTCString(t + 1)>>,
      <<"%", UTCString(t + 1)>>, <<"A%20B", UTCString(t + 1)>> }

\* where the publisher's identifiers are stored: name -> <<cookie, local storage>>
IdScenarios ==
    { [n \in IdNames |-> <<Null, Null>>],
      [n \in IdNames |-> IF n = "sid1" THEN <<"c_sid1", Null>>
                         ELSE IF n = "pfpi" THEN <<Null, "l_pfpi">>
                         ELSE <<"c_sid2", "l_sid2">>] }

InitJar(duidCookie, ids) ==
    [n \in CookieNames |->
        IF n = DUID_NAME THEN duidCookie
        ELSE IF n \notin DOMAIN ids \/ ids[n][1] = Null THEN NoCookie
        ELSE Cookie(ids[n][1], Forever)]

InitStore(duidItem, ids) ==
    [k \in LsKeys |->
        IF k = DUID_NAME THEN duidItem[1]
        ELSE IF k = DUID_NAME \o "_exp" THEN duidItem[2]
        ELSE IF k \in DOMAIN ids THEN ids[k][2] ELSE Null]

\* via: how the invocation was reached; snapshot: the consent data its gate
\* read; after: the steps of the requestBids run completed before it;
\* faulty: whether a storage access of it threw
NoCall == [via |-> "none", outcome |-> "none", snapshot |-> "none",
           duid |-> Undefined, generated |-> FALSE, faulty |-> FALSE, after |-> <<>>]

NewEpoch == [calls |-> 0, resolutions |-> 0,
             pixels |-> 0, firstGate |-> "none"]

\* getId: what the latest getId call returned; deferred: the url the returned
\* function closes over; requests: the ajax calls made, each with the
\* invocations of its caller's callback
ResolverIdle == [getId |-> "none", params |-> JsUndefined, deferred |-> Undefined,
                 logged |-> FALSE, requests |-> <<>>]

NotCalled == [fn |-> "none", arg |-> JsUndefined, val |-> JsUndefined]

InitController ==
    /\ isPixelFired = FALSE
    /\ liveConnectCfg = JsUndefined
    /\ consentData = "none"
    /\ pipeline = PipelineIdle
    /\ pixelCalls = <<>>
    /\ setCookieCalls = <<>>
    /\ setItemCalls = <<>>
    /\ last = NoCall
    /\ epoch = NewEpoch
    /\ resolver = ResolverIdle
    /\ returned = NotCalled

Init ==
    /\ InitController
    /\ now = 1
    /\ \E e \in Envs, c \in DuidCookies(now), d \in DuidItems(now), ids \in IdScenarios :
          /\ \/ d \in {<<Null, Null>>, <<OldDuid, UTCString(now + 1)>>}
             \/ e = PlainEnv
          /\ env = e
          /\ cookies = IF e.cookiesEnabled THEN InitJar(c, ids) ELSE EmptyJar
          /\ ls = InitStore(d, ids)

-----------------------------------------------------------------------------
(* Operations of the tracking module and of its environment *)

PageEnv == [labels |-> env.labels, psl |-> env.psl,
            cookiesEnabled |-> env.cookiesEnabled, inIframe |-> env.inIframe,
            now |-> now]

\* One invocation of liveConnectHook, reached directly ("direct") or as the
\* requestBids before-hook ("hook") after the pipeline steps in done, with
\* the consent snapshot it reads, under the storage fault and with the
\* random part the ulid generator would draw; r is what the hook does
Invoke(via, snapshot, r, fault, done) ==
    LET ran == r.outcome \in {"sent", "threw"} IN
    /\ isPixelFired' = r.isPixelFired
    /\ cookies' = r.effects.cookies
    /\ ls' = r.effects.ls
    /\ setCookieCalls' = r.effects.setCookieCalls
    /\ setItemCalls' = r.effects.setItemCalls
    /\ pixelCalls' = IF r.outcome = "sent" THEN <<r.effects.pixel>> ELSE <<>>
    /\ last' = [via |-> via, outcome |-> r.outcome,
                snapshot |-> IF r.outcome = "noop" THEN "none" ELSE snapshot,
                duid |-> r.effects.duid, generated |-> r.effects.generated,
                faulty |-> ran /\ fault # NoFault, after |-> done]
    /\ epoch' = [epoch EXCEPT
                    !.calls = IF via = "direct" \/ done = <<>> THEN @ + 1 ELSE @,
                    !.pixels = IF r.outcome = "sent" THEN @ + 1 ELSE @,
                    !.resolutions = IF ran THEN @ + 1 ELSE @,
                    !.firstGate = IF @ # "none" \/ r.outcome = "noop" THEN @
                                  ELSE IF r.outcome = "denied" THEN "denied"
                                  ELSE "granted"]

\* pbjs.liveConnect()
LiveConnect ==
    /\ epoch.calls < MaxCalls
    /\ \E fault \in Faults, rnd \in RandomParts :
          Invoke("direct", consentData,
                 liveConnectHook(isPixelFired, consentData, liveConnectCfg,
                                 cookies, ls, PageEnv, fault, rnd),
                 fault, pipeline.done)
    /\ UNCHANGED <<liveConnectCfg, consentData, now, env, pipeline, resolver, returned>>

\* pbjs.requestBids(): the before-hooks run up to the consentManagement
\* hook, which waits for the CMP
RequestBids ==
    /\ pipeline.pc = "idle"
    /\ epoch.calls < MaxCalls
    /\ IF HookChain[1] = "liveConnect"
       THEN \E fault \in Faults, rnd \in RandomParts :
               LET r == liveConnectHook(isPixelFired, consentData, liveConnectCfg,
                                        cookies, ls, PageEnv, fault, rnd)
               IN  /\ Invoke("hook", consentData, r, fault, <<>>)
                   /\ pipeline' = IF r.outcome = "threw" THEN PipelineIdle
                                  ELSE [pc |-> "cmp", done |-> <<"liveConnect">>]
       ELSE /\ pipeline' = [pc |-> "cmp", done |-> <<>>]
            /\ epoch' = [epoch EXCEPT !.calls = @ + 1]
            /\ UNCHANGED <<isPixelFired, cookies, ls, pixelCalls, setCookieCalls,
                           setItemCalls, last>>
    /\ UNCHANGED <<liveConnectCfg, consentData, now, env, resolver, returned>>

\* the CMP answers: the consent-collection step completes with the snapshot
\* stored, the remaining before-hooks run, and the requests are dispatched
ConsentManagementHook ==
    /\ pipeline.pc = "cmp"
    /\ \E answer \in {"granted", "denied"} :
          /\ consentData' = answer
          /\ IF pipeline.done = <<>>
             THEN \E fault \in Faults, rnd \in RandomParts :
                     Invoke("hook", answer,
                            liveConnectHook(isPixelFired, answer, liveConnectCfg,
                                            cookies, ls, PageEnv, fault, rnd),
                            fault, <<"consentManagement">>)
             ELSE UNCHANGED <<isPixelFired, cookies, ls, pixelCalls, setCookieCalls,
                              setItemCalls, last, epoch>>
    /\ pipeline' = PipelineIdle
    /\ UNCHANGED <<liveConnectCfg, now, env, resolver, returned>>

\* pbjs.setConfig({liveConnect: c})
SetConfig ==
    /\ \E c \in RawConfigs : liveConnectCfg' = c
    /\ UNCHANGED <<isPixelFired, consentData, now, cookies, ls, env, pipeline,
                   pixelCalls, setCookieCalls, setItemCalls, last, epoch, resolver, returned>>

\* resetPixel(): a new page lifetime for the observers of the calls
resetPixel ==
    /\ isPixelFired' = FALSE
    /\ pixelCalls' = <<>>
    /\ setCookieCalls' = <<>>
    /\ setItemCalls' = <<>>
    /\ last' = NoCall
    /\ epoch' = NewEpoch
    /\ UNCHANGED <<liveConnectCfg, consentData, now, cookies, ls, env, pipeline, resolver, returned>>

Next ==
    \/ LiveConnect
    \/ RequestBids
    \/ ConsentManagementHook
    \/ SetConfig
    \/ resetPixel

Spec == Init /\ [][Next]_vars

-----------------------------------------------------------------------------
(* The identifier resolver: modules/userId/liveIntentIdSystem.js *)

MaxRequests == 2      \* ajax calls of the resolver

MODULE_NAME == "liveIntentId"
LIVE_CONNECT_DUID_KEY == "_li_duid"
DOMAIN_USER_ID_QUERY_PARAM_KEY == "duid"
DEFAULT_LIVEINTENT_IDENTITY_URL == "//id.liadm.com"
DEFAULT_PREBID_SOURCE == "prebid"

\* `${x}` for the values a configuration holds
Stringify(x) ==
    CASE x.t = "string" -> x.s
      [] x.t = "number" -> ToString(x.n)
      [] x.t = "null" -> "null"
      [] OTHER -> "undefined"

\* identifier.replace(LIVE_CONNECT_DUID_KEY, DOMAIN_USER_ID_QUERY_PARAM_KEY):
\* the first occurrence of '_li_duid' in the name becomes 'duid'
ReplaceDuidKey(identifier) ==
    CASE identifier = "_li_duid" -> "duid"
      [] identifier = "my_li_duid" -> "myduid"
      [] OTHER -> identifier

\* obj[key] = value on an object kept as the sequence of its <<key, value>> pairs
SetKey(obj, key, value) ==
    IF \E i \in DOMAIN obj : obj[i][1] = key
    THEN [i \in DOMAIN obj |-> IF obj[i][1] = key THEN <<key, value>> ELSE obj[i]]
    ELSE Append(obj, <<key, value>>)

\* the reduce over additionalIdentifierNames.concat([LIVE_CONNECT_DUID_KEY]) from index i on
RECURSIVE ResolveIdentifiers(_, _, _, _, _, _)
ResolveIdentifiers(names, i, obj, jar, store, t) ==
    IF i > Len(names) THEN obj
    ELSE LET c == getCookie(jar, names[i], t)
             value == IF Falsy(c) THEN getItem(store, names[i]) ELSE c
             key == ReplaceDuidKey(names[i])
         IN  ResolveIdentifiers(names, i + 1,
                                IF Falsy(value) THEN obj ELSE SetKey(obj, key, value),
                                jar, store, t)

\* utils.parseQueryStringParameters(queryObj): each pair as key=value&
RECURSIVE parseQueryStringParameters(_)
parseQueryStringParameters(obj) ==
    IF Len(obj) = 0 THEN ""
    ELSE obj[1][1] \o "=" \o encodeURIComponent(obj[1][2]) \o "&"
             \o parseQueryStringParameters(Tail(obj))

RECURSIVE Strings(_)
Strings(a) == IF Len(a) = 0 THEN <<>> ELSE <<a[1].s>> \o Strings(Tail(a))

\* getId(configParams): whether it logged an error, and the url the function
\* it returns closes over (Undefined when it returns nothing)
getId(configParams, jar, store, t) ==
    LET publisherId == IF JsFalsy(configParams) THEN configParams
                       ELSE Prop(configParams, "publisherId")
        baseUrl == IF JsFalsy(Prop(configParams, "url"))
                   THEN DEFAULT_LIVEINTENT_IDENTITY_URL
                   ELSE Prop(configParams, "url").s
        additionalIdentifierNames ==
            IF JsFalsy(Prop(configParams, "identifiersToResolve")) THEN <<>>
            ELSE Strings(Prop(configParams, "identifiersToResolve").a)
        additionalIdentifiers ==
            ResolveIdentifiers(additionalIdentifierNames \o <<LIVE_CONNECT_DUID_KEY>>,
                               1, <<>>, jar, store, t)
        queryString == parseQueryStringParameters(additionalIdentifiers)
    IN  IF JsFalsy(publisherId) /\ publisherId.t # "string"
        THEN [logged |-> TRUE, url |-> Undefined]
        ELSE [logged |-> FALSE,
              url |-> baseUrl \o "/idex/" \o DEFAULT_PREBID_SOURCE \o "/"
                          \o Stringify(publisherId) \o "?" \o queryString]

\* response bodies of the identity service, and JSON.parse on them
Bodies == {"", "{\"unifiedId\":\"abc\"}", "{\"unifiedId\":123}", "not json", "{\"unifiedId\""}

JSONparse(body) ==
    CASE body = "{\"unifiedId\":\"abc\"}" -> Ret(Obj([unifiedId |-> Str("abc")]))
      [] body = "{\"unifiedId\":123}" -> Ret(Obj([unifiedId |-> Num(123)]))
      [] OTHER -> Throw

\* onResponse without the try/catch around JSON.parse: the parse error
\* leaves the function before the callback is invoked
onResponseNoCatch(response) ==
    IF response = "" THEN <<JsUndefined>>
    ELSE IF JSONparse(response).threw THEN <<>>
    ELSE <<JSONparse(response).v>>

\* the function handed to ajax, run on a response: the invocations of the
\* caller's callback it makes, each by its argument
onResponse(response) ==
    IF response = "" THEN <<JsUndefined>>
    ELSE IF JSONparse(response).threw THEN <<JsUndefined>>
    ELSE <<JSONparse(response).v>>


\* the submodule configurations handed to getId
ConfigParams ==
    { JsUndefined,
      EmptyObj,
      Obj([publisherId |-> Str("")]),
      Obj([publisherId |-> Num(0)]),
      Obj([publisherId |-> Num(123)]),
      Obj([publisherId |-> Str("pub1")]),
      Obj([publisherId |-> Str("pub1"), url |-> Str("//custom"),
           identifiersToResolve |-> Arr(<<Str("sid1"), Str("my_li_duid")>>)]) }

ControllerVars == <<isPixelFired, liveConnectCfg, consentData, now, cookies, ls, env,
                    pipeline, pixelCalls, setCookieCalls, setItemCalls, last, epoch,
                    returned>>

\* getId making the ajax call itself instead of returning a function that does
GetIdEager ==
    /\ \E p \in ConfigParams :
          LET r == getId(p, cookies, ls, now) IN
          resolver' = [resolver EXCEPT
                          !.getId = IF r.url = Undefined THEN "undefined" ELSE "function",
                          !.params = p,
                          !.deferred = r.url,
                          !.logged = r.logged,
                          !.requests =
                              IF r.url = Undefined \/ Len(@) >= MaxRequests THEN @
                              ELSE Append(@, [url |-> r.url, state |-> "pending",
                                              body |-> Undefined, callbacks |-> <<>>])]
    /\ UNCHANGED ControllerVars

\* liveIntentIdSubmodule.getId(configParams)
GetId ==
    /\ \E p \in ConfigParams :
          LET r == getId(p, cookies, ls, now) IN
          resolver' = [resolver EXCEPT
                          !.getId = IF r.url = Undefined THEN "undefined" ELSE "function",
                          !.params = p,
                          !.deferred = r.url,
                          !.logged = r.logged]
    /\ UNCHANGED ControllerVars

\* the caller invokes the function getId returned, with its callback: ajax(url, ...)
Resolve ==
    /\ resolver.getId = "function"
    /\ Len(resolver.requests) < MaxRequests
    /\ resolver' = [resolver EXCEPT !.requests =
                       Append(@, [url |-> resolver.deferred, state |-> "pending",
                                  body |-> Undefined, callbacks |-> <<>>])]
    /\ UNCHANGED ControllerVars

\* the request completes on ajax's success path with a response body
AjaxSuccess ==
    /\ \E i \in DOMAIN resolver.requests, body \in Bodies :
          /\ resolver.requests[i].state = "pending"
          /\ resolver' = [resolver EXCEPT
                             !.requests[i].state = "success",
                             !.requests[i].body = body,
                             !.requests[i].callbacks = @ \o onResponse(body)]
    /\ UNCHANGED ControllerVars

\* the request ends on ajax's error path: the resolver handed ajax a bare
\* function, which ajax takes for the success callback only
AjaxError ==
    /\ \E i \in DOMAIN resolver.requests :
          /\ resolver.requests[i].state = "pending"
          /\ resolver' = [resolver EXCEPT !.requests[i].state = "error"]
    /\ UNCHANGED ControllerVars

\* what the pages of the resolver hold: the LiveConnect duid and the
\* publisher's identifiers, in cookies or in local storage
ResolverStorage ==
    { [n \in IdNames \cup ResolverNames |-> <<Null, Null>>],
      [n \in IdNames \cup ResolverNames |->
          IF n = "_li_duid" THEN <<"c_li_duid", Null>>
          ELSE IF n = "sid1" THEN <<Null, "l_sid1">>
          ELSE <<Null, Null>>],
      [n \in IdNames \cup ResolverNames |->
          IF n = "_li_duid" THEN <<Null, "l_li_duid">>
          ELSE IF n = "my_li_duid" THEN <<"c_mine", Null>>
          ELSE <<Null, Null>>] }

InitResolver ==
    /\ InitController
    /\ now = 1
    /\ env = PlainEnv
    /\ \E ids \in ResolverStorage :
          /\ cookies = InitJar(NoCookie, ids)
          /\ ls = InitStore(<<Null, Null>>, ids)

NextResolver ==
    \/ GetId
    \/ Resolve
    \/ AjaxSuccess
    \/ AjaxError

SpecResolver == InitResolver /\ [][NextResolver]_vars

-----------------------------------------------------------------------------
(* The functions of the two modules called on their own, on inputs drawn   *)
(* from bounded sets: validateConfig, getStoredDuid, getDuid,              *)
(* getFromCookieOrLocalStorage and liveIntentIdSubmodule.decode            *)

\* decode without the typeof test on the field
decodeAnyField(value) ==
    IF ~JsFalsy(value) /\ ~JsFalsy(Prop(value, "unifiedId"))
    THEN Obj([liuid |-> Prop(value, "unifiedId")])
    ELSE JsUndefined

\* liveIntentIdSubmodule.decode(value)
decode(value) ==
    IF ~JsFalsy(value) /\ Prop(value, "unifiedId").t = "string"
    THEN Obj([liuid |-> Prop(value, "unifiedId")])
    ELSE JsUndefined

\* stored id values handed to decode
DecodeInputs ==
    { JsUndefined, JsNull, Num(0), Str(""), Str("abc"), EmptyObj,
      Obj([unifiedId |-> Str("abc")]), Obj([unifiedId |-> Str("")]),
      Obj([unifiedId |-> Num(123)]), Obj([unifiedId |-> JsNull]),
      Obj([other |-> Str("abc")]) }

\* values of storage.type in a raw configuration (JsUndefined: not given)
StorageTypes ==
    { JsUndefined, JsNull, Str(COOKIE), Str(LOCAL_STORAGE), Str("html7"), Str(""),
      Str("Cookie"), Str("HTML5"), Num(5), Arr(<<Str(COOKIE)>>) }

\* raw configurations handed to validateConfig: missing, not an object,
\* empty, and objects with each storage type
WideConfigs ==
    { JsUndefined, JsNull, Num(0), Str(""), Num(5), Str("cookie"), EmptyObj,
      Obj([storage |-> Str(LOCAL_STORAGE)]), Obj([storage |-> EmptyObj]),
      Obj([scrapedIdentifiers |-> Str("sid1")]),
      Obj([scrapedIdentifiers |-> Arr(<<Str("sid1"), Num(1)>>),
           providedFirstPartyIdentifier |-> Arr(<<Str("pfpi")>>)]) }
    \cup { Obj([storage |-> Obj([type |-> t])]) : t \in StorageTypes \ {JsUndefined} }
    \cup { Obj([storage |-> Obj([type |-> t, expires |-> Str("60")])]) :
              t \in {Str("html7"), Str(LOCAL_STORAGE)} }

\* validateConfig(config)
CallValidateConfig ==
    /\ \E c \in WideConfigs :
          returned' = [fn |-> "validateConfig", arg |-> c, val |-> validateConfig(c)]
    /\ UNCHANGED <<isPixelFired, liveConnectCfg, consentData, now, cookies, ls, env,
                   pipeline, pixelCalls, setCookieCalls, setItemCalls, last, epoch, resolver>>

\* getDuid(validateConfig(config)), with the writes it makes
CallGetDuid ==
    /\ \E c \in WideConfigs, rnd \in RandomParts :
          LET Called(d) ==
                 /\ cookies' = d.after.cookies
                 /\ ls' = d.after.ls
                 /\ setCookieCalls' = d.after.setCookieCalls
                 /\ setItemCalls' = d.after.setItemCalls
                 /\ returned' = [fn |-> "getDuid", arg |-> c,
                                 val |-> [duid |-> d.duid, stored |-> d.stored,
                                          generated |-> d.generated]]
          IN  Called(getDuid(validateConfig(c), cookies, ls, PageEnv, NoFault, rnd))
    /\ UNCHANGED <<isPixelFired, liveConnectCfg, consentData, now, env, pipeline,
                   pixelCalls, last, epoch, resolver>>

\* configurations naming the publisher's identifiers
PixelConfigs ==
    RawConfigs \cup
    { Obj([providedFirstPartyIdentifier |-> Str("sid2"),
           scrapedIdentifiers |-> Arr(<<Str("sid2"), Str("pfpi"), Str("sid1")>>)]),
      Obj([providedFirstPartyIdentifier |-> Str(""),
           scrapedIdentifiers |-> Arr(<<Str("sid1"), Num(1)>>)]),
      Obj([scrapedIdentifiers |-> Arr(<<>>)]),
      JsUndefined }

\* sendLiveConnectPixel() under the configuration c, with the writes getDuid
\* makes and the pixel handed to utils.triggerPixel
CallSendLiveConnectPixel ==
    /\ \E c \in PixelConfigs, rnd \in RandomParts :
          LET Called(sent) ==
                 /\ cookies' = sent.cookies
                 /\ ls' = sent.ls
                 /\ setCookieCalls' = sent.setCookieCalls
                 /\ setItemCalls' = sent.setItemCalls
                 /\ pixelCalls' = IF sent.threw THEN <<>> ELSE <<sent.pixel>>
                 /\ returned' = [fn |-> "sendLiveConnectPixel", arg |-> c,
                                 val |-> [duid |-> sent.duid, threw |-> sent.threw]]
          IN  Called(sendLiveConnectPixel(c, cookies, ls, PageEnv, NoFault, rnd))
    /\ UNCHANGED <<isPixelFired, liveConnectCfg, consentData, now, env, pipeline,
                   last, epoch, resolver>>

\* getStoredDuid(storage) for a validated storage configuration
CallGetStoredDuid ==
    /\ \E type \in STORAGE_TYPE_ALLOWED :
          returned' = [fn |-> "getStoredDuid", arg |-> Str(type),
                       val |-> getStoredDuid([type |-> Str(type),
                                              expires |-> Num(STORAGE_EXPIRES_DEFAULT)],
                                             cookies, ls, now, NoFault)]
    /\ UNCHANGED <<isPixelFired, liveConnectCfg, consentData, now, cookies, ls, env,
                   pipeline, pixelCalls, setCookieCalls, setItemCalls, last, epoch, resolver>>

\* getFromCookieOrLocalStorage(identifierName)
CallGetFromCookieOrLocalStorage ==
    /\ \E name \in IdNames :
          returned' = [fn |-> "getFromCookieOrLocalStorage", arg |-> Str(name),
                       val |-> getFromCookieOrLocalStorage(name, cookies, ls, now, NoFault).v]
    /\ UNCHANGED <<isPixelFired, liveConnectCfg, consentData, now, cookies, ls, env,
                   pipeline, pixelCalls, setCookieCalls, setItemCalls, last, epoch, resolver>>

\* liveIntentIdSubmodule.decode(value)
CallDecode ==
    /\ \E value \in DecodeInputs :
          returned' = [fn |-> "decode", arg |-> value, val |-> decode(value)]
    /\ UNCHANGED <<isPixelFired, liveConnectCfg, consentData, now, cookies, ls, env,
                   pipeline, pixelCalls, setCookieCalls, setItemCalls, last, epoch, resolver>>

\* the pages the functions are called on: a single-label and a two-label
\* hostname, with the storage contents of Init
FunctionEnvs ==
    { PlainEnv, [labels |-> MaxLabels, psl |-> 1, cookiesEnabled |-> TRUE, inIframe |-> FALSE] }

\* further placements of the publisher's identifiers: a name missing between
\* two stored ones, and cookies and items holding the empty string
MoreIdScenarios ==
    { [n \in IdNames |-> IF n = "pfpi" THEN <<"c_pfpi", "l_pfpi">>
                         ELSE IF n = "sid1" THEN <<Null, Null>>
                         ELSE <<Null, "l_sid2">>],
      [n \in IdNames |-> IF n = "pfpi" THEN <<Null, "">>
                         ELSE IF n = "sid1" THEN <<"", "l_sid1">>
                         ELSE <<"", "">>] }

\* <<page, duid cookie, duid items, identifiers>> on day t: every state of
\* the duid items, also one without expiry key and one with an unreadable
\* expiry, on the plain page; every placement of the identifiers on each page
FunctionStarts(t) ==
    { <<PlainEnv, c, d, ids>> :
         c \in DuidCookies(t), ids \in IdScenarios,
         d \in DuidItems(t) \cup {<<OldDuid, Null>>, <<OldDuid, "not a date">>} }
    \cup { <<e, c, <<Null, Null>>, ids>> :
         e \in FunctionEnvs, c \in DuidCookies(t), ids \in IdScenarios \cup MoreIdScenarios }

InitFunctions ==
    /\ InitController
    /\ now = 1
    /\ \E start \in FunctionStarts(now) :
          /\ env = start[1]
          /\ cookies = InitJar(start[2], start[4])
          /\ ls = InitStore(start[3], start[4])

NextFunctions ==
    \/ CallValidateConfig
    \/ CallGetDuid
    \/ CallSendLiveConnectPixel
    \/ CallGetStoredDuid
    \/ CallGetFromCookieOrLocalStorage
    \/ CallDecode

SpecFunctions == InitFunctions /\ [][NextFunctions]_vars

-----------------------------------------------------------------------------
(* Properties of the pixel controller, checked under Spec *)

\* the hook evaluated the consent gate in the invocation last recorded
GateEvaluated == last.outcome \in {"denied", "sent", "threw"}

\* the configuration sendLiveConnectPixel would validate, and the duid the
\* configured storage holds when it is read without a fault
CurrentConfig == validateConfig(liveConnectCfg)
StoredNow == getStoredDuid(CurrentConfig.storage, cookies, ls, now, NoFault)
CookieConfigured == CurrentConfig.storage.type = Str(COOKIE)
ExpiresDays == CurrentConfig.storage.expires.n

\* this step is an invocation that went through identifier resolution
ResolutionStep == epoch'.resolutions = epoch.resolutions + 1

\* the browser takes a cookie for some domain of this host
CookieWritable == env.cookiesEnabled /\ env.psl < env.labels

\* C1: within one page lifetime identifier resolution and beacon emission
\* happen at most once each, and when two or more invocations were made and
\* the first gate evaluation permitted consent, exactly once each
C1_ExactlyOnce ==
    /\ epoch.pixels <= 1
    /\ epoch.resolutions <= 1
    /\ (epoch.calls >= 2 /\ epoch.firstGate = "granted"
          => epoch.pixels = 1 /\ epoch.resolutions = 1)

\* C2: once the first gate evaluation of a page lifetime found consent
\* denied, the flag is set and no step of that lifetime writes to storage
\* or emits a beacon, whatever the consent state is afterwards
C2_DeniedIsFinal ==
    [][epoch'.firstGate = "denied"
         => /\ isPixelFired'
            /\ cookies' = cookies
            /\ ls' = ls
            /\ pixelCalls' = <<>>
            /\ setCookieCalls' = <<>>
            /\ setItemCalls' = <<>>
            /\ epoch'.pixels = 0
            /\ epoch'.resolutions = 0]_vars

\* a second trigger found consent granted after the first found it denied
C2_Witness ==
    /\ epoch.firstGate = "denied"
    /\ epoch.calls >= 2
    /\ last.outcome = "noop"
    /\ consentData = "granted"
    /\ isPixelFired

\* C3: the flag starts unset, and once set only resetPixel unsets it:
\* no configuration change, consent change or invocation does
C3_OneWay ==
    /\ [](last.outcome = "none" => ~isPixelFired)
    /\ [][isPixelFired => (isPixelFired' \/ resetPixel)]_vars

\* the flag survived a configuration and a consent change and a later trigger
C3_Witness ==
    /\ isPixelFired
    /\ epoch.firstGate = "granted"
    /\ last.outcome = "noop"
    /\ liveConnectCfg # JsUndefined
    /\ consentData = "denied"

\* C4: an invocation that finds a valid identifier in the configured storage
\* reuses its value and writes it back with a fresh expiry, now plus the
\* configured days
C4_ReuseRefreshes ==
    [][(/\ ResolutionStep
        /\ ~last'.faulty
        /\ ~Falsy(StoredNow)
        /\ (CookieConfigured => CookieWritable))
         => /\ ~last'.generated
            /\ last'.duid = StoredNow
            /\ IF CookieConfigured
               THEN /\ cookies'[DUID_NAME].value = StoredNow
                    /\ cookies'[DUID_NAME].expires = now + ExpiresDays
               ELSE /\ ls'[DUID_NAME] = encodeURIComponent(StoredNow)
                    /\ ls'[DUID_NAME \o "_exp"] = UTCString(now + ExpiresDays)]_vars

\* what can follow the pu parameter of a pixel url: the provided first-party
\* identifier's two parameters, then the scraped identifiers' parameters
IdValuesOf(n) == {cookies[n].value, ls[n]} \ {Null}
FpiTails ==
    {""} \cup UNION { {"&pfpi=" \o v \o "&fpn=" \o n : v \in IdValuesOf(n)} : n \in IdNames }
ExtParams ==
    UNION { {"&ext_" \o n \o "=" \o v : v \in IdValuesOf(n)} : n \in IdNames }
ScrapedTails == {""} \cup ExtParams \cup {x \o y : x \in ExtParams, y \in ExtParams}
PixelTails == {x \o y : x \in FpiTails, y \in ScrapedTails}

\* the pixel urls whose duid parameter is duid, on this page
PixelUrisOf(duid) ==
    {LIVE_PIXEL_URL \o "?duid=" \o duid \o "&tna=" \o PrebidVersion \o "&pu="
        \o encodeURIComponent(getPageUrl(env.inIframe)) \o tail : tail \in PixelTails}

\* the duid the configured storage holds after the step, read as the next
\* page view would read it
StoredAfter == getStoredDuid(CurrentConfig.storage, cookies', ls', now, NoFault)

C6_FaultsAreCaught ==
    /\ last.outcome # "threw"
    /\ (last.faulty => last.outcome = "sent" /\ Len(pixelCalls) = 1)

ConfiguredName ==
    LET name == Prop(Prop(liveConnectCfg, "storage"), "name") IN
    IF name.t = "string" /\ name.s # "" THEN name.s ELSE "_li_duid"

\* C11: a permitted fire writes the durable identifier under the configured
\* entry name: every setCookie call names it, and every setItem call writes
\* the key of that name or its _exp sibling
C11_NamedPerConfiguration ==
    [][ResolutionStep
         => /\ \A i \in DOMAIN setCookieCalls' : setCookieCalls'[i].name = ConfiguredName
            /\ \A i \in DOMAIN setItemCalls' :
                  setItemCalls'[i].key \in {ConfiguredName, ConfiguredName \o "_exp"}]_vars

\* C12: with storage type html5 and local storage not throwing, one
\* resolution makes exactly two setItem calls, the _exp key first and the
\* value key second, and no setCookie call
C12_TwoLocalStorageWrites ==
    [][(ResolutionStep /\ CurrentConfig.storage.type = Str(LOCAL_STORAGE) /\ ~last'.faulty)
         => /\ setCookieCalls' = <<>>
            /\ cookies' = cookies
            /\ Len(setItemCalls') = 2
            /\ setItemCalls'[1] = [key |-> DUID_NAME \o "_exp",
                                   value |-> UTCString(now + ExpiresDays)]
            /\ setItemCalls'[2] = [key |-> DUID_NAME,
                                   value |-> encodeURIComponent(last'.duid)]
            /\ ls'[DUID_NAME \o "_exp"] = setItemCalls'[1].value
            /\ ls'[DUID_NAME] = setItemCalls'[2].value]_vars

\* a resolution under html5 has written the two keys
C12_Witness ==
    /\ last.outcome = "sent"
    /\ ~last.faulty
    /\ Len(setItemCalls) = 2
    /\ setCookieCalls = <<>>
    /\ ls[DUID_NAME] = encodeURIComponent(last.duid)

-----------------------------------------------------------------------------
(* Properties of the identifier resolver, checked under SpecResolver *)

\* what getId read as the publisher identifier of its latest configuration
PublisherIdGiven == Prop(resolver.params, "publisherId")

\* the identifier is a non-empty string
PublisherIdValid == PublisherIdGiven.t = "string" /\ PublisherIdGiven.s # ""

\* C7: for a configuration whose publisherId is missing, an empty string or
\* not a string, getId logs an error and returns undefined, and no request
\* is issued for that configuration
C7_InvalidPublisherIdRejected ==
    (resolver.getId # "none" /\ ~PublisherIdValid)
      => /\ resolver.getId = "undefined"
         /\ resolver.logged
         /\ resolver.deferred = Undefined

\* C8: a request that completed on the success path invoked the caller's
\* callback exactly once: with the parsed object when the body is valid
\* JSON, with undefined when the body is malformed or empty; a request
\* still pending has not invoked it
C8_CallbackOncePerResponse ==
    \A i \in DOMAIN resolver.requests :
       LET q == resolver.requests[i] IN
       /\ q.state = "pending" => q.callbacks = <<>>
       /\ q.state = "success"
            => /\ Len(q.callbacks) = 1
               /\ q.callbacks[1] =
                     IF q.body = "{\"unifiedId\":\"abc\"}" THEN Obj([unifiedId |-> Str("abc")])
                     ELSE IF q.body = "{\"unifiedId\":123}" THEN Obj([unifiedId |-> Num(123)])
                     ELSE JsUndefined

\* a malformed body and a valid one have each been answered, once
C8_Witness ==
    /\ Len(resolver.requests) = 2
    /\ resolver.requests[1].state = "success"
    /\ resolver.requests[1].body = "not json"
    /\ resolver.requests[1].callbacks = <<JsUndefined>>
    /\ resolver.requests[2].state = "success"
    /\ resolver.requests[2].body = "{\"unifiedId\":\"abc\"}"
    /\ resolver.requests[2].callbacks = <<Obj([unifiedId |-> Str("abc")])>>

\* C9: a request that ended on ajax's error path invoked the caller's
\* callback, with an undefined result
C9_TransportErrorAnswered ==
    \A i \in DOMAIN resolver.requests :
       resolver.requests[i].state = "error"
          => resolver.requests[i].callbacks = <<JsUndefined>>

-----------------------------------------------------------------------------
(* Properties of the functions called on their own, checked under SpecFunctions *)

\* storage.type as the raw configuration gives it
GivenType(config) == Prop(Prop(config, "storage"), "type")

\* the configuration validateConfig returns for {}: every field its default
AllDefault ==
    [scrapedIdentifiers |-> Arr(<<>>),
     providedFirstPartyIdentifier |-> JsNull,
     storage |-> [type |-> Str("cookie"), expires |-> Num(STORAGE_EXPIRES_DEFAULT)]]

\* C13: for a storage type that is neither "cookie" nor "html5", a string
\* or not, validateConfig returns storage type "cookie", and getDuid on that
\* configuration writes the identifier as a cookie and nothing to local
\* storage
C13_UnknownTypeIsCookie ==
    GivenType(returned.arg) \notin {Str("cookie"), Str("html5")}
      => /\ returned.fn = "validateConfig" => returned.val.storage.type = Str("cookie")
         /\ returned.fn = "getDuid"
              => /\ setItemCalls = <<>>
                 /\ Len(setCookieCalls) >= 1
                 /\ \A i \in DOMAIN setCookieCalls :
                       /\ setCookieCalls[i].name = DUID_NAME
                       /\ setCookieCalls[i].value = returned.val.duid
                 /\ getCookie(cookies, DUID_NAME, now) = returned.val.duid

\* getDuid under storage type html7 wrote the cookie
C13_Witness ==
    /\ returned.fn = "getDuid"
    /\ GivenType(returned.arg) = Str("html7")
    /\ returned.val.generated
    /\ Len(setCookieCalls) >= 1
    /\ getCookie(cookies, DUID_NAME, now) = returned.val.duid

C16_DecodeStringOnly ==
    returned.fn = "decode"
      => returned.val =
            IF /\ returned.arg.t = "object"
               /\ "unifiedId" \in DOMAIN returned.arg.o
               /\ returned.arg.o.unifiedId.t = "string"
            THEN Obj([liuid |-> returned.arg.o.unifiedId])
            ELSE JsUndefined

\* decode was handed a non-string unifiedId
C16_Witness ==
    /\ returned.fn = "decode"
    /\ returned.arg = Obj([unifiedId |-> Num(123)])
    /\ returned.val = JsUndefined

\* the value a lookup of the identifier n finds in the storage as it is:
\* the unexpired non-empty cookie, else the local-storage item
ResolvedValue(n) ==
    IF cookies[n].value \notin {Null, ""} /\ cookies[n].expires > now
    THEN cookies[n].value
    ELSE ls[n]

\* the scraped-identifier names of a raw configuration, in its order; a
\* list that is not an array of strings configures none
ScrapedNames(config) ==
    LET names == Prop(config, "scrapedIdentifiers") IN
    IF names.t = "array" /\ \A i \in DOMAIN names.a : names.a[i].t = "string"
    THEN [i \in DOMAIN names.a |-> names.a[i].s]
    ELSE <<>>

\* "&ext_<name>=<value>" for each of names that resolves to a non-empty value
RECURSIVE ExtTail(_)
ExtTail(names) ==
    IF names = <<>> THEN ""
    ELSE (IF ResolvedValue(Head(names)) \in {Null, ""} THEN ""
          ELSE "&ext_" \o Head(names) \o "=" \o ResolvedValue(Head(names)))
         \o ExtTail(Tail(names))

\* "&pfpi=<value>&fpn=<name>" when the provided first-party identifier name
\* of the raw configuration resolves to a non-empty value
FpiTail(config) ==
    LET name == Prop(config, "providedFirstPartyIdentifier") IN
    IF name.t = "string" /\ name.s \in IdNames /\ ResolvedValue(name.s) \notin {Null, ""}
    THEN "&pfpi=" \o ResolvedValue(name.s) \o "&fpn=" \o name.s
    ELSE ""

\* C15: the pixel url is <base>?duid=..&tna=..&pu=.. followed by
\* &pfpi=<value>&fpn=<name> exactly when the configured provided first-party
\* identifier name resolves to a non-empty stored value, followed by one
\* &ext_<name>=<value> per configured scraped name that resolves to a
\* non-empty stored value, in configuration order; absent values add nothing
C15_PixelUrl ==
    returned.fn = "sendLiveConnectPixel"
      => pixelCalls =
            << LIVE_PIXEL_URL \o "?duid=" \o returned.val.duid
                 \o "&tna=" \o PrebidVersion
                 \o "&pu=" \o "http%3A%2F%2Flocalhost%3A9876%2F%3Fid%3D1"
                 \o FpiTail(returned.arg) \o ExtTail(ScrapedNames(returned.arg)) >>

\* a pixel with the provided identifier and, of three scraped names, the
\* first and the second, the third having no stored value
C15_Witness ==
    /\ returned.fn = "sendLiveConnectPixel"
    /\ ScrapedNames(returned.arg) = <<"sid2", "pfpi", "sid1">>
    /\ ResolvedValue("sid1") = Null
    /\ FpiTail(returned.arg) = "&pfpi=l_sid2&fpn=sid2"
    /\ ExtTail(ScrapedNames(returned.arg)) = "&ext_sid2=l_sid2&ext_pfpi=c_pfpi"
    /\ Len(pixelCalls) = 1

\* C18: a local-storage read returns the stored value when the sibling
\* _exp key holds the empty string or a date not strictly before now, and
\* treats it as absent only when the expiry key is present and holds a date
\* strictly before now (here for the read of the durable identifier, with a
\* stored value that decodes)
C18_AbsentOnlyWhenExpired ==
    (/\ returned.fn = "getStoredDuid"
     /\ returned.arg = Str("html5")
     /\ ls[DUID_NAME] \notin {Null} \cup Malformed)
      => /\ Falsy(returned.val)
              <=> /\ DateGetTime(ls[DUID_NAME \o "_exp"]) # NaN
                  /\ DateGetTime(ls[DUID_NAME \o "_exp"]) < now
         /\ ~Falsy(returned.val) => returned.val = decodeURIComponent(ls[DUID_NAME]).v

\* the durable identifier is stored in the storage type other than type
\* and the storage of that type holds nothing of it
DuidOnlyInOther(type) ==
    IF type = Str("html5")
    THEN /\ ls[DUID_NAME] = Null /\ ls[DUID_NAME \o "_exp"] = Null
         /\ getCookie(cookies, DUID_NAME, now) \notin {Null, ""}
    ELSE /\ cookies[DUID_NAME] = NoCookie
         /\ ls[DUID_NAME] \notin {Null, ""} \cup Malformed
         /\ ls[DUID_NAME \o "_exp"] \in {"", UTCString(now + 1)}

\* C19: an identifier lookup returns the cookie value when it is non-empty
\* and the local-storage item only when the cookie is empty or absent; the
\* durable identifier is read only from the configured storage type, so
\* that with a duid only in the other type the read finds none and getDuid
\* generates a new one, leaving the other type's entry alone
C19_ReadSource ==
    [][/\ returned'.fn = "getFromCookieOrLocalStorage"
           => returned'.val = ResolvedValue(returned'.arg.s)
       /\ (returned'.fn = "getStoredDuid" /\ DuidOnlyInOther(returned'.arg))
           => Falsy(returned'.val)
       /\ (returned'.fn = "getDuid"
             /\ DuidOnlyInOther(validateConfig(returned'.arg).storage.type))
           => /\ Falsy(returned'.val.stored)
              /\ returned'.val.generated
              /\ Len(returned'.val.duid) = 26
              /\ IF validateConfig(returned'.arg).storage.type = Str("html5")
                 THEN cookies' = cookies /\ ls'[DUID_NAME] = returned'.val.duid
                 ELSE /\ ls' = ls
                      /\ getCookie(cookies', DUID_NAME, now) = returned'.val.duid]_vars

\* getDuid under html5 generated an identifier although a cookie held one,
\* on a page where a name stored both ways resolves to the cookie's value
C19_Witness ==
    /\ returned.fn = "getDuid"
    /\ returned.arg = Obj([storage |-> Obj([type |-> Str("html5")])])
    /\ returned.val.generated
    /\ cookies[DUID_NAME].value = OldDuid
    /\ ls[DUID_NAME] = returned.val.duid
    /\ setCookieCalls = <<>>
    /\ cookies["sid2"].value = "c_sid2" /\ ls["sid2"] = "l_sid2"
    /\ ResolvedValue("sid2") = "c_sid2"

-----------------------------------------------------------------------------
(* Deferral of the resolver's request, checked under SpecResolver *)

\* C20: getId issues no request; a request is issued only by an invocation
\* of the function getId returned, one request per invocation and for the
\* url that function closes over; the callback of an invocation is invoked
\* at most once, and only in the step in which the response of its request
\* arrives: a request still pending, or ended in error, has invoked none
C20_Deferred ==
    [][/\ <<resolver'.getId, resolver'.params, resolver'.deferred, resolver'.logged>>
             # <<resolver.getId, resolver.params, resolver.deferred, resolver.logged>>
           => resolver'.requests = resolver.requests
       /\ \/ Len(resolver'.requests) = Len(resolver.requests)
          \/ /\ resolver.getId = "function"
             /\ resolver'.requests =
                   Append(resolver.requests,
                          [url |-> resolver.deferred, state |-> "pending",
                           body |-> Undefined, callbacks |-> <<>>])
       /\ \A i \in DOMAIN resolver'.requests :
             /\ Len(resolver'.requests[i].callbacks) <= 1
             /\ resolver'.requests[i].state \in {"pending", "error"}
                   => resolver'.requests[i].callbacks = <<>>
             /\ (i \in DOMAIN resolver.requests
                   /\ resolver'.requests[i].callbacks # resolver.requests[i].callbacks)
                   => /\ resolver.requests[i].state = "pending"
                      /\ resolver'.requests[i].state = "success"
                      /\ resolver.requests[i].callbacks = <<>>]_vars

\* two invocations of the returned function: the response of the second has
\* arrived and its callback has run once, the first is still pending
C20_Witness ==
    /\ resolver.getId = "function"
    /\ Len(resolver.requests) = 2
    /\ resolver.requests[1].state = "pending"
    /\ resolver.requests[1].callbacks = <<>>
    /\ resolver.requests[2].state = "success"
    /\ Len(resolver.requests[2].callbacks) = 1

-----------------------------------------------------------------------------
(* The cookie write of the durable identifier, checked under Spec *)

\* an identifier resolution under cookie storage in which no cookie access threw
CookieWriteStep == ResolutionStep /\ CookieConfigured /\ ~last'.faulty

\* the read-back after the write on the candidate of k labels equals the
\* value written: the browser took the write, or a cookie with that value
\* was there before
ReadBackConfirms(k) ==
    k > env.psl \/ getCookie(cookies, DUID_NAME, now) = last'.duid

\* C17, as stated: with cookies disabled no setCookie call is made;
\* otherwise the candidates are tried starting at the apex domain (the
\* public suffix plus one label) and walking toward the full hostname, each
\* once, until a read-back equals the value or the candidates are exhausted
C17_WalkFromApex ==
    [][CookieWriteStep
         => IF ~env.cookiesEnabled THEN setCookieCalls' = <<>>
            ELSE /\ Len(setCookieCalls') >= 1
                 /\ env.psl < env.labels
                      => \A i \in DOMAIN setCookieCalls' :
                            setCookieCalls'[i].domain = DomainOf(env.psl + i)]_vars

\* C17, as the code has it: with cookies disabled no setCookie call is
\* made; otherwise the first candidate is the last label of the hostname
\* alone, each next candidate has one more label, up to the full hostname,
\* each is written once with the same name, value and expiry, and the walk
\* stops right after the first write whose read-back equals the value, or
\* when the full hostname has been tried
C17_WalkFromLastLabel ==
    [][CookieWriteStep
         => IF ~env.cookiesEnabled THEN setCookieCalls' = <<>>
            ELSE /\ Len(setCookieCalls') \in 1..env.labels
                 /\ \A i \in DOMAIN setCookieCalls' :
                       /\ setCookieCalls'[i] =
                             [name |-> DUID_NAME, value |-> last'.duid,
                              expires |-> UTCString(now + ExpiresDays),
                              domain |-> DomainOf(i)]
                       /\ i < Len(setCookieCalls') => ~ReadBackConfirms(i)
                 /\ \/ ReadBackConfirms(Len(setCookieCalls'))
                    \/ Len(setCookieCalls') = env.labels]_vars

\* on a two-label hostname under a one-label public suffix the write on the
\* last label was not read back and the write on the hostname was
C17_Witness ==
    /\ last.outcome = "sent" /\ ~last.faulty
    /\ env.labels = 2 /\ env.psl = 1 /\ env.cookiesEnabled
    /\ Len(setCookieCalls) = 2
    /\ setCookieCalls[1].domain = DomainOf(1)
    /\ setCookieCalls[2].domain = DomainOf(2)
    /\ getCookie(cookies, DUID_NAME, now) = last.duid

-----------------------------------------------------------------------------
(* The query of the resolver's request, checked under SpecResolver *)

\* the additional identifier names the latest getId call was configured with
ConfiguredToResolve ==
    LET names == Prop(resolver.params, "identifiersToResolve") IN
    IF names.t = "array" THEN [i \in DOMAIN names.a |-> names.a[i].s] ELSE <<>>

\* "<name>=<value>&" for each of names that resolves to a non-empty value
RECURSIVE UnchangedNamesQuery(_)
UnchangedNamesQuery(names) ==
    IF names = <<>> THEN ""
    ELSE (IF ResolvedValue(Head(names)) \in {Null, ""} THEN ""
          ELSE Head(names) \o "=" \o ResolvedValue(Head(names)) \o "&")
         \o UnchangedNamesQuery(Tail(names))

\* C21: the query of the resolver's url holds every configured additional
\* identifier name that resolves to a non-empty stored value under its own
\* unchanged name, then the built-in _li_duid under the name duid; names
\* with no stored value contribute nothing
C21_OnlyBuiltInRenamed ==
    (resolver.getId = "function" /\ Prop(resolver.params, "publisherId") = Str("pub1"))
      => resolver.deferred =
            (IF JsFalsy(Prop(resolver.params, "url")) THEN "//id.liadm.com"
             ELSE Prop(resolver.params, "url").s)
            \o "/idex/prebid/pub1?"
            \o UnchangedNamesQuery(ConfiguredToResolve)
            \o (IF ResolvedValue("_li_duid") \in {Null, ""} THEN ""
                ELSE "duid=" \o ResolvedValue("_li_duid") \o "&")

-----------------------------------------------------------------------------
(* The fire state and the emitted duid, checked under Spec *)

\* C22: the fire state is NOT_FIRED at page load and after resetPixel, and
\* it becomes FIRED only in an invocation whose consent gate evaluated to
\* denied or which made a triggerPixel call, so that FIRED implies one of
\* the two happened in this page lifetime; an invocation whose beacon
\* assembly was left by an exception before the emission leaves the flag
\* unset and emits nothing
C22_FiredMeansGateOrPixel ==
    [][/\ (~isPixelFired /\ isPixelFired')
           => \/ last'.outcome = "denied" /\ last'.snapshot = "denied"
              \/ /\ last'.outcome = "sent"
                 /\ Len(pixelCalls') = 1
                 /\ epoch'.pixels = epoch.pixels + 1
       /\ (ResolutionStep /\ epoch'.pixels = epoch.pixels)
           => ~isPixelFired' /\ pixelCalls' = <<>> /\ last'.outcome = "threw"]_vars

\* the flag was set by a denied gate after an earlier invocation of the
\* page lifetime had been left by an exception without setting it
C22_Witness ==
    /\ isPixelFired
    /\ last.outcome = "denied"
    /\ epoch.firstGate = "granted"
    /\ epoch.resolutions = 1
    /\ epoch.pixels = 0

\* the payload written earlier under the value key of the configured
\* storage: the cookie's value, or the decoded local-storage item
WrittenDuids ==
    IF CookieConfigured
    THEN {getCookie(cookies, DUID_NAME, now)} \ {Null}
    ELSE IF ls[DUID_NAME] \in {Null} \cup Malformed THEN {}
         ELSE {decodeURIComponent(ls[DUID_NAME]).v}

\* C23: the duid of every emitted beacon is the value written earlier under
\* the value key of the configured storage or a token generated in that
\* invocation, and so is whatever the invocation persists as the durable
\* identifier; no placeholder for a missing value key is emitted or stored
C23_StoredOrGenerated ==
    [][(ResolutionStep /\ Len(pixelCalls') = 1)
         => /\ \/ last'.generated /\ Len(last'.duid) = 26
               \/ last'.duid \in WrittenDuids
            /\ \A i \in DOMAIN setItemCalls' :
                  setItemCalls'[i].key = DUID_NAME
                     => \/ last'.generated /\ setItemCalls'[i].value = last'.duid
                        \/ decodeURIComponent(setItemCalls'[i].value).v \in WrittenDuids
            /\ \A i \in DOMAIN setCookieCalls' :
                  \/ last'.generated /\ setCookieCalls'[i].value = last'.duid
                  \/ setCookieCalls'[i].value \in WrittenDuids]_vars

=============================================================================
